---- MODULE Spec2Model ----
(***************************************************************************)
(* A model of the gltf crate root (src/lib.rs): the load entry points of   *)
(* Gltf and Document, the validation gate, the Document accessors and the  *)
(* Normalize conversion matrix between i8, u8, i16, u16 and f32.           *)
(***************************************************************************)
EXTENDS Integers, Sequences, FiniteSets, TLC

VARIABLES
    nsrc,    \* Normalize: the source encoding U of the vector being converted
    nin,     \* Normalize: the input vector [U; 2]
    ntgt,    \* Normalize: the target encoding T ("none" before the call)
    nout,    \* Normalize: the converted vector [T; 2], each element with its wrap flag
    nback,   \* Normalize: the f32 result converted back to U ("none" before)
    linput,  \* load: the caller's input, a byte sequence or a json::Root
    lext,    \* load: what the external collaborators answer during this load
    lentry,  \* load: the entry point called ("none" before the call)
    lret,    \* load: what the entry point returned, with the collaborator calls it made
    droot,   \* Document: the json::Root the Document is built from
    ddoc,    \* Document: the Document ("none" before construction)
    dop,     \* Document: the method called on it ("none" before the call)
    dres     \* Document: what the method returned

normVars == <<nsrc, nin, ntgt, nout, nback>>

loadVars == <<linput, lext, lentry, lret>>

docVars == <<droot, ddoc, dop, dres>>

vars == <<normVars, loadVars, docVars>>

\* the value of the variables of a part of the crate that is not in use
NormIdle == nsrc = "idle" /\ nin = "idle" /\ ntgt = "idle" /\ nout = "idle" /\ nback = "idle"

LoadIdle == linput = "idle" /\ lext = "idle" /\ lentry = "idle" /\ lret = "idle"

DocIdle == droot = "idle" /\ ddoc = "idle" /\ dop = "idle" /\ dres = "idle"

(***************************************************************************)
(* Bounds of the model.                                                    *)
(***************************************************************************)
\* the second element of an input vector is at most MaxGap above the first
MaxGap == 2
\* 16-bit inputs are taken within Near of every multiple of 16
Near == 1

(***************************************************************************)
(* Integer encodings.                                                      *)
(***************************************************************************)
IntTypes == {"i8", "u8", "i16", "u16"}

Types == IntTypes \cup {"f32"}

Pow2(n) == 2 ^ n

MinOf(T) == CASE T = "i8" -> -128 [] T = "u8" -> 0 [] T = "i16" -> -32768 [] T = "u16" -> 0

MaxOf(T) == CASE T = "i8" -> 127 [] T = "u8" -> 255 [] T = "i16" -> 32767 [] T = "u16" -> 65535

Fits(T, v) == MinOf(T) <= v /\ v <= MaxOf(T)

\* two's complement wraparound of v into T
Wrap(T, v) ==
    LET span == MaxOf(T) - MinOf(T) + 1
    IN  ((v - MinOf(T)) % span) + MinOf(T)

\* a value together with the record of whether any step producing it wrapped
Val(v, w) == [v |-> v, wrapped |-> w]

\* `x as T` between integer types
CastInt(T, a) == Val(Wrap(T, a.v), a.wrapped \/ ~Fits(T, a.v))

\* `x * k` evaluated in T
MulInt(T, a, k) == Val(Wrap(T, a.v * k), a.wrapped \/ ~Fits(T, a.v * k))

\* Rust integer division truncates toward zero
TruncDiv(x, k) == IF x >= 0 THEN x \div k ELSE -((-x) \div k)

\* `x / k` evaluated in T
DivInt(T, a, k) == Val(Wrap(T, TruncDiv(a.v, k)), a.wrapped \/ ~Fits(T, TruncDiv(a.v, k)))

\* `x.max(0)` (Ord::max)
MaxZero(a) == Val(IF a.v >= 0 THEN a.v ELSE 0, a.wrapped)

(***************************************************************************)
(* f32 arithmetic.  A finite f32 is s * m * 2^e with s the sign and m a    *)
(* 24-bit significand (2^23 <= m < 2^24), or m = 0 for zero.  Products are *)
(* rounded to nearest, ties to even, as IEEE 754 single precision does.    *)
(* The exact product of a 24-bit by a 16-bit significand is formed in two  *)
(* 12-bit limbs so that no intermediate exceeds 31 bits.                   *)
(***************************************************************************)
F32(s, m, e) == [s |-> s, m |-> m, e |-> e]

F32Zero == F32(1, 0, 0)

RECURSIVE BitLen(_)
BitLen(n) == IF n = 0 THEN 0 ELSE 1 + BitLen(n \div 2)

\* the f32 with value s * p * 2^e, for an exactly representable p < 2^24
F32Exact(s, p, e) ==
    IF p = 0 THEN F32Zero
    ELSE LET k == 24 - BitLen(p) IN F32(s, p * Pow2(k), e - k)

\* `x as f32` of an integer below 2^24 in magnitude: exact
F32FromInt(x) == F32Exact(IF x < 0 THEN -1 ELSE 1, IF x < 0 THEN -x ELSE x, 0)

RECURSIVE TrailingZeros(_)
TrailingZeros(n) == IF n % 2 = 1 THEN 0 ELSE 1 + TrailingZeros(n \div 2)

\* round q * 2^t + rem (0 <= rem < 2^t, 2^23 <= q < 2^24) to nearest, ties to even
RoundNearestEven(s, q, rem, t, e) ==
    LET half == Pow2(t - 1)
        up   == rem > half \/ (rem = half /\ q % 2 = 1)
        q1   == IF up THEN q + 1 ELSE q
    IN  IF q1 = Pow2(24) THEN F32(s, Pow2(23), e + t + 1) ELSE F32(s, q1, e + t)

\* s * (m * k) * 2^e rounded to f32, for m < 2^24 and k < 2^16
RoundProduct(s, m, k, e) ==
    LET A == (m \div 4096) * k
        B == (m % 4096) * k
        H == A + (B \div 4096)
        L == B % 4096
        t == BitLen(H) - 12
    IN  IF H < 4096 THEN F32Exact(s, H * 4096 + L, e)
        ELSE IF t <= 12
             THEN RoundNearestEven(s, H * Pow2(12 - t) + (L \div Pow2(t)), L % Pow2(t), t, e)
             ELSE RoundNearestEven(s, H \div Pow2(t - 12),
                                   (H % Pow2(t - 12)) * 4096 + L, t, e)

\* `a * b` in f32; one of the operands has at most 16 significant bits
F32Mul(a, b) ==
    IF a.m = 0 \/ b.m = 0 THEN F32Zero
    ELSE LET za == TrailingZeros(a.m)
             zb == TrailingZeros(b.m)
             ma == a.m \div Pow2(za)
             mb == b.m \div Pow2(zb)
             e  == a.e + za + b.e + zb
         IN  IF ma >= mb THEN RoundProduct(a.s * b.s, ma, mb, e)
                         ELSE RoundProduct(a.s * b.s, mb, ma, e)

\* long division of 1 by k: the first 24 significant bits of 1/k and the remainder
RECURSIVE RecipDigits(_, _, _, _)
RecipDigits(k, q, r, p) ==
    IF q >= Pow2(23) THEN [q |-> q, r |-> r, p |-> p]
    ELSE IF 2 * r >= k THEN RecipDigits(k, 2 * q + 1, 2 * r - k, p + 1)
                       ELSE RecipDigits(k, 2 * q, 2 * r, p + 1)

\* `k.recip()` = 1.0 / k for an integer-valued literal k > 1, correctly rounded
F32Recip(k) ==
    LET d  == RecipDigits(k, 0, 1, 0)
        up == 2 * d.r > k \/ (2 * d.r = k /\ d.q % 2 = 1)
        q1 == IF up THEN d.q + 1 ELSE d.q
    IN  IF q1 = Pow2(24) THEN F32(1, Pow2(23), 1 - d.p) ELSE F32(1, q1, -d.p)

\* a <= b on f32 values
F32Le(a, b) ==
    LET magLe(x, y) == x.m = 0 \/ (y.m # 0 /\ (x.e < y.e \/ (x.e = y.e /\ x.m <= y.m)))
    IN  IF a.m = 0 /\ b.m = 0 THEN TRUE
        ELSE IF a.s = -1 /\ a.m # 0
             THEN IF b.s = -1 /\ b.m # 0 THEN magLe(b, a) ELSE TRUE
             ELSE IF b.s = -1 /\ b.m # 0 THEN FALSE ELSE magLe(a, b)

\* f32::max
F32Max(a, b) == IF F32Le(a, b) THEN b ELSE a

\* the integer part of a, toward zero (|a| < 2^31)
F32Trunc(a) ==
    IF a.m = 0 \/ a.e <= -24 THEN 0
    ELSE IF a.e >= 0 THEN a.s * a.m * Pow2(a.e)
    ELSE a.s * (a.m \div Pow2(-a.e))

\* `a as T` for an integer T: truncation toward zero, saturating at T's limits
CastF32(T, a) ==
    LET i == F32Trunc(a)
    IN  Val(IF i < MinOf(T) THEN MinOf(T) ELSE IF i > MaxOf(T) THEN MaxOf(T) ELSE i,
            ~Fits(T, i))

(***************************************************************************)
(* The Normalize impls, one operator per `impl Normalize<T> for U`, named  *)
(* U_to_T.  Integer sources are plain integers; every result is a Val.     *)
(***************************************************************************)
\* 127.0_f32.recip(), 32767.0_f32.recip(), 65535.0_f32.recip()
Recip127 == F32Recip(127)

Recip32767 == F32Recip(32767)

Recip65535 == F32Recip(65535)

i8_to_i8(x) == Val(x, FALSE)

i8_to_u8(x) == MulInt("u8", CastInt("u8", MaxZero(Val(x, FALSE))), 2)

i8_to_i16(x) == MulInt("i16", CastInt("i16", Val(x, FALSE)), 256)

i8_to_u16(x) == MulInt("u16", CastInt("u16", MaxZero(Val(x, FALSE))), 512)

\* variant: the lower clamp `.max(-1.0)` left out
i8_to_f32_unclamped(x) == Val(F32Mul(F32FromInt(x), Recip127), FALSE)

i8_to_f32(x) == Val(F32Max(F32Mul(F32FromInt(x), Recip127), F32FromInt(-1)), FALSE)

u8_to_i8(x) == CastInt("i8", DivInt("u8", Val(x, FALSE), 2))

u8_to_u8(x) == Val(x, FALSE)

\* variant: scaled by 0x100, the factor of the signed 8-bit source
u8_to_i16_wide(x) == MulInt("i16", CastInt("i16", Val(x, FALSE)), 256)

u8_to_i16(x) == MulInt("i16", CastInt("i16", Val(x, FALSE)), 128)

u8_to_u16(x) == MulInt("u16", CastInt("u16", MaxZero(Val(x, FALSE))), 2)

u8_to_f32(x) == Val(F32Max(F32Mul(F32FromInt(x), Recip32767), F32FromInt(-1)), FALSE)

i16_to_i8(x) == CastInt("i8", DivInt("i16", Val(x, FALSE), 256))

\* variant: the clamp `.max(0)` left out
i16_to_u8_unclamped(x) == CastInt("u8", DivInt("i16", Val(x, FALSE), 128))

i16_to_u8(x) == CastInt("u8", DivInt("i16", MaxZero(Val(x, FALSE)), 128))

i16_to_i16(x) == Val(x, FALSE)

i16_to_u16(x) == MulInt("u16", CastInt("u16", MaxZero(Val(x, FALSE))), 2)

i16_to_f32(x) == Val(F32Max(F32Mul(F32FromInt(x), Recip32767), F32FromInt(-1)), FALSE)

u16_to_i8(x) == CastInt("i8", DivInt("u16", Val(x, FALSE), 512))

u16_to_u8(x) == CastInt("u8", DivInt("u16", Val(x, FALSE), 256))

u16_to_i16(x) == CastInt("i16", DivInt("u16", Val(x, FALSE), 2))

u16_to_u16(x) == Val(x, FALSE)

u16_to_f32(x) == Val(F32Mul(F32FromInt(x), Recip65535), FALSE)

f32_to_i8(a) == CastF32("i8", F32Mul(a, F32FromInt(127)))

f32_to_u8(a) == CastF32("u8", F32Mul(F32Max(a, F32Zero), F32FromInt(255)))

f32_to_i16(a) == CastF32("i16", F32Mul(a, F32FromInt(32767)))

f32_to_u16(a) == CastF32("u16", F32Mul(F32Max(a, F32Zero), F32FromInt(65535)))

f32_to_f32(a) == Val(a, FALSE)

\* trait dispatch: <U as Normalize<T>>::normalize(x)
Normalize(U, T, x) ==
    CASE U = "i8"  /\ T = "i8"  -> i8_to_i8(x)
      [] U = "i8"  /\ T = "u8"  -> i8_to_u8(x)
      [] U = "i8"  /\ T = "i16" -> i8_to_i16(x)
      [] U = "i8"  /\ T = "u16" -> i8_to_u16(x)
      [] U = "i8"  /\ T = "f32" -> i8_to_f32(x)
      [] U = "u8"  /\ T = "i8"  -> u8_to_i8(x)
      [] U = "u8"  /\ T = "u8"  -> u8_to_u8(x)
      [] U = "u8"  /\ T = "i16" -> u8_to_i16(x)
      [] U = "u8"  /\ T = "u16" -> u8_to_u16(x)
      [] U = "u8"  /\ T = "f32" -> u8_to_f32(x)
      [] U = "i16" /\ T = "i8"  -> i16_to_i8(x)
      [] U = "i16" /\ T = "u8"  -> i16_to_u8(x)
      [] U = "i16" /\ T = "i16" -> i16_to_i16(x)
      [] U = "i16" /\ T = "u16" -> i16_to_u16(x)
      [] U = "i16" /\ T = "f32" -> i16_to_f32(x)
      [] U = "u16" /\ T = "i8"  -> u16_to_i8(x)
      [] U = "u16" /\ T = "u8"  -> u16_to_u8(x)
      [] U = "u16" /\ T = "i16" -> u16_to_i16(x)
      [] U = "u16" /\ T = "u16" -> u16_to_u16(x)
      [] U = "u16" /\ T = "f32" -> u16_to_f32(x)
      [] U = "f32" /\ T = "i8"  -> f32_to_i8(x)
      [] U = "f32" /\ T = "u8"  -> f32_to_u8(x)
      [] U = "f32" /\ T = "i16" -> f32_to_i16(x)
      [] U = "f32" /\ T = "u16" -> f32_to_u16(x)
      [] U = "f32" /\ T = "f32" -> f32_to_f32(x)

\* impl Normalize<[T; 2]> for [U; 2]: element-wise
NormalizeVec2(U, T, v) == <<Normalize(U, T, v[1]), Normalize(U, T, v[2])>>

(***************************************************************************)
(* The conversion matrix as a state machine: a caller holds a vector of an *)
(* integer encoding, converts it to a target encoding, and converts an f32 *)
(* result back to the encoding it came from.                               *)
(***************************************************************************)
\* the values of U the model converts
Values(U) ==
    IF U \in {"i8", "u8"} THEN MinOf(U)..MaxOf(U)
    ELSE {x \in MinOf(U)..MaxOf(U) : x % 16 <= Near \/ x % 16 >= 16 - Near}

InitNorm ==
    /\ nsrc \in IntTypes
    /\ \E x \in Values(nsrc), d \in 0..MaxGap :
          /\ x + d <= MaxOf(nsrc)
          /\ nin = <<x, x + d>>
    /\ ntgt = "none"
    /\ nout = "none"
    /\ nback = "none"
    /\ LoadIdle /\ DocIdle

\* v.normalize() with the target type T chosen by the caller
CallNormalize ==
    /\ ntgt = "none"
    /\ \E T \in Types :
          /\ ntgt' = T
          /\ nout' = NormalizeVec2(nsrc, T, nin)
    /\ UNCHANGED <<nsrc, nin, nback, loadVars, docVars>>

\* the f32 vector converted back to the source encoding
CallNormalizeBack ==
    /\ ntgt = "f32"
    /\ nback = "none"
    /\ nback' = NormalizeVec2("f32", nsrc, <<nout[1].v, nout[2].v>>)
    /\ UNCHANGED <<nsrc, nin, ntgt, nout, loadVars, docVars>>

NextNorm == CallNormalize \/ CallNormalizeBack

SpecNorm == InitNorm /\ [][NextNorm]_vars

(***************************************************************************)
(* Option, Result and the crate's Error.                                   *)
(***************************************************************************)
None == [tag |-> "None"]

Some(x) == [tag |-> "Some", val |-> x]

Ok(x) == [tag |-> "Ok", val |-> x]

Err(e) == [tag |-> "Err", err |-> e]

\* the result of a call that panicked
Panic == [tag |-> "Panic"]

\* Error::Binary, Error::Deserialize, Error::Io, Error::Validation
Error(kind, payload) == [kind |-> kind, payload |-> payload]

\* impl From<binary::Error> for Error
From_binary_Error(err) == Error("Binary", err)

\* impl From<std::io::Error> for Error
From_io_Error(err) == Error("Io", err)

\* impl From<json::Error> for Error
From_json_Error(err) == Error("Deserialize", err)

\* the value a function returned and the collaborator calls it made, in order
Outcome(ret, calls) == [ret |-> ret, calls |-> calls]

Call(fn, arg) == [fn |-> fn, arg |-> arg]

SeqsUpTo(S, n) == UNION {[1..k -> S] : k \in 0..n}

(***************************************************************************)
(* json::Root, as far as lib.rs reads it: one ordered sequence per         *)
(* category, the extension name lists and the optional default scene.      *)
(***************************************************************************)
\* entities in a Root: at most MaxEntities over all its sequences
MaxEntities == 2

SeqFields ==
    {"accessors", "animations", "buffers", "buffer_views", "cameras",
     "extensions_used", "extensions_required", "images", "materials", "meshes",
     "nodes", "samplers", "scenes", "skins", "textures"}

\* the records a sequence of a Root may hold
Entities == {"a", "b"}

EmptyRoot == [f \in SeqFields \cup {"scene"} |-> IF f = "scene" THEN None ELSE <<>>]

RECURSIVE BuildRoot(_, _)
BuildRoot(places, root) ==
    IF places = <<>> THEN root
    ELSE LET p == Head(places)
         IN  BuildRoot(Tail(places), [root EXCEPT ![p[1]] = Append(@, p[2])])

\* every Root of at most MaxEntities entities; the scene reference may be out of range
Roots ==
    {[BuildRoot(places, EmptyRoot) EXCEPT !.scene = sc] :
        places \in SeqsUpTo(SeqFields \X Entities, MaxEntities),
        sc \in {None} \cup {Some(i) : i \in 0..MaxEntities}}

(***************************************************************************)
(* Document.                                                               *)
(***************************************************************************)
\* pub struct Document(json::Root): a tuple struct of one field
from_json_without_validation(json) == <<json>>

\* variant: the default scene reference is not carried over
into_json_without_scene(self) == [self[1] EXCEPT !.scene = None]

into_json(self) == self[1]

\* slice.iter().enumerate(): the pairs (index, item), indices from 0
Enumerate(s) == [i \in 1..Len(s) |-> <<i - 1, s[i]>>]

\* the iter::* struct a traversal method returns
Iter(field, self) == [iter |-> Enumerate(self[1][field]), document |-> self]

accessors(self) == Iter("accessors", self)

animations(self) == Iter("animations", self)

buffers(self) == Iter("buffers", self)

cameras(self) == Iter("cameras", self)

images(self) == Iter("images", self)

materials(self) == Iter("materials", self)

meshes(self) == Iter("meshes", self)

nodes(self) == Iter("nodes", self)

samplers(self) == Iter("samplers", self)

scenes(self) == Iter("scenes", self)

skins(self) == Iter("skins", self)

textures(self) == Iter("textures", self)

views(self) == Iter("buffer_views", self)

\* iter::ExtensionsUsed(self.0.extensions_used.iter())
extensions_used(self) == self[1].extensions_used

extensions_required(self) == self[1].extensions_required

\* Scene::new(document, index, json): the Resolved View of a scene
Scene_new(document, index, json) == [document |-> document, index |-> index, json |-> json]

\* Iterator::nth on iter::Scenes: the view of the n-th pair, None past the end
Scenes_nth(it, n) ==
    IF n < Len(it.iter)
    THEN Some(Scene_new(it.document, it.iter[n + 1][1], it.iter[n + 1][2]))
    ELSE None

\* variant: and_then in place of map and unwrap
default_scene_lenient(self) ==
    IF self[1].scene = None THEN None
    ELSE Scenes_nth(scenes(self), self[1].scene.val)

\* Option::map over the scene reference; unwrap panics on a None from nth
default_scene(self) ==
    IF self[1].scene = None THEN None
    ELSE LET r == Scenes_nth(scenes(self), self[1].scene.val)
         IN  IF r = None THEN Panic ELSE Some(r.val)

(***************************************************************************)
(* The external collaborators of a load.  Their answers are fixed per load *)
(* in lext; each call is recorded with the argument it was handed.         *)
(***************************************************************************)
\* a collaborator the load does not reach has no answer to give
NotCalled == [tag |-> "NotCalled"]

\* binary::Glb::from_slice
Glb_from_slice(ext, slice) == Outcome(ext.glb, <<Call("Glb::from_slice", slice)>>)

\* binary::Glb::from_reader
Glb_from_reader(ext, data) == Outcome(ext.glb, <<Call("Glb::from_reader", data)>>)

\* json::deserialize::from_slice
json_from_slice(ext, slice) == Outcome(ext.deser, <<Call("json::from_slice", slice)>>)

\* json::deserialize::from_reader: reads the reader from its position to the end
json_from_reader(ext, data) == Outcome(ext.deser, <<Call("json::from_reader", data)>>)

\* Validate::validate_minimally: the (path, error) reports made to the callback
validate_minimally(ext, root) == Outcome(ext.reports, <<Call("validate_minimally", root)>>)

(***************************************************************************)
(* Document::validate and the load entry points.                           *)
(***************************************************************************)
\* the callback |path, error| errors.push((path(), error)), once per report
RECURSIVE PushReports(_, _)
PushReports(reports, errors) ==
    IF reports = <<>> THEN errors
    ELSE PushReports(Tail(reports), Append(errors, <<Head(reports)[1], Head(reports)[2]>>))

\* variant: only the first report is kept
validate_first_only(ext, self) ==
    LET v      == validate_minimally(ext, self[1])
        errors == IF v.ret = <<>> THEN <<>> ELSE <<v.ret[1]>>
    IN  IF errors = <<>> THEN Outcome(Ok(<<>>), v.calls)
        ELSE Outcome(Err(Error("Validation", errors)), v.calls)

validate(ext, self) ==
    LET v      == validate_minimally(ext, self[1])
        errors == PushReports(v.ret, <<>>)
    IN  IF errors = <<>> THEN Outcome(Ok(<<>>), v.calls)
        ELSE Outcome(Err(Error("Validation", errors)), v.calls)

\* b"glTF"
Magic == <<103, 108, 84, 70>>

\* <[u8]>::starts_with
StartsWith(s, prefix) == Len(s) >= Len(prefix) /\ SubSeq(s, 1, Len(prefix)) = prefix

\* pub struct Gltf { document, blob }
Gltf(document, blob) == [document |-> document, blob |-> blob]

\* json = deserialize(..)?; Document::from_json_without_validation(json); Ok(Gltf {..})
FinishLoad(j, blob, calls) ==
    IF j.ret.tag = "Err" THEN Outcome(Err(From_json_Error(j.ret.err)), calls \o j.calls)
    ELSE Outcome(Ok(Gltf(from_json_without_validation(j.ret.val), blob)), calls \o j.calls)

from_slice_without_validation(ext, slice) ==
    IF StartsWith(slice, Magic)
    THEN LET g == Glb_from_slice(ext, slice)
         IN  IF g.ret.tag = "Err" THEN Outcome(Err(From_binary_Error(g.ret.err)), g.calls)
             ELSE FinishLoad(json_from_slice(ext, g.ret.val.json), g.ret.val.bin, g.calls)
    ELSE FinishLoad(json_from_slice(ext, slice), None, <<>>)

\* the reader is an io::Cursor over data, at position 0: read_exact of 4 bytes
\* fails with UnexpectedEof on a shorter input, and seek(Start(0)) succeeds
from_reader_without_validation(ext, data) ==
    IF Len(data) < 4 THEN Outcome(Err(From_io_Error("UnexpectedEof")), <<>>)
    ELSE LET magic == SubSeq(data, 1, 4)
         IN  IF StartsWith(magic, Magic)
             THEN LET g == Glb_from_reader(ext, data)
                  IN  IF g.ret.tag = "Err"
                      THEN Outcome(Err(From_binary_Error(g.ret.err)), g.calls)
                      ELSE FinishLoad(json_from_slice(ext, g.ret.val.json),
                                      g.ret.val.bin, g.calls)
             ELSE FinishLoad(json_from_reader(ext, data), None, <<>>)

\* let _ = document.validate()?; Ok(value)
ThenValidate(ext, w, document) ==
    LET v == validate(ext, document)
    IN  IF v.ret.tag = "Err" THEN Outcome(v.ret, w.calls \o v.calls)
        ELSE Outcome(w.ret, w.calls \o v.calls)

\* variant: the result of validate is not consulted
from_slice_unchecked(ext, slice) == from_slice_without_validation(ext, slice)

from_slice(ext, slice) ==
    LET w == from_slice_without_validation(ext, slice)
    IN  IF w.ret.tag = "Err" THEN w ELSE ThenValidate(ext, w, w.ret.val.document)

from_reader(ext, data) ==
    LET w == from_reader_without_validation(ext, data)
    IN  IF w.ret.tag = "Err" THEN w ELSE ThenValidate(ext, w, w.ret.val.document)

from_json(ext, json) ==
    LET document == from_json_without_validation(json)
    IN  ThenValidate(ext, Outcome(Ok(document), <<>>), document)

(***************************************************************************)
(* A load as a state machine: the caller picks an input, the collaborators *)
(* have their answers for it, and one entry point is called on it.         *)
(***************************************************************************)
\* input byte sequences have at most MaxLen bytes
MaxLen == 4
\* the validator makes at most MaxReports reports in one pass
MaxReports == 2

\* the bytes of the magic, and '{'
Bytes == {103, 108, 84, 70, 123}

\* the (path, error) pairs the validator may report
Reports == {<<"scene", "IndexOutOfBounds">>, <<"meshes[0]", "Missing">>}

\* the Roots the deserializer may produce
SampleRoots ==
    {EmptyRoot, [EmptyRoot EXCEPT !.scenes = <<"a">>, !.scene = Some(0)]}

\* Ok(Glb { json, bin }) with and without a BIN chunk, or a binary::Error
GlbOutcomes ==
    {Err("binary::Error"), Ok([json |-> <<123>>, bin |-> None]),
     Ok([json |-> <<123>>, bin |-> Some(<<0>>)])}

DeserOutcomes == {Err("json::Error")} \cup {Ok(r) : r \in SampleRoots}

InitLoad ==
    /\ \/ \E b \in SeqsUpTo(Bytes, MaxLen) :
             /\ linput = [kind |-> "bytes", bytes |-> b]
             /\ \E g \in IF StartsWith(b, Magic) THEN GlbOutcomes ELSE {NotCalled},
                   d \in DeserOutcomes :
                   \E r \in IF d.tag = "Ok" THEN SeqsUpTo(Reports, MaxReports) ELSE {<<>>} :
                       lext = [glb |-> g, deser |-> d, reports |-> r]
       \/ \E j \in SampleRoots, r \in SeqsUpTo(Reports, MaxReports) :
             /\ linput = [kind |-> "json", root |-> j]
             /\ lext = [glb |-> NotCalled, deser |-> NotCalled, reports |-> r]
    /\ lentry = "none"
    /\ lret = "none"
    /\ NormIdle /\ DocIdle

Call_from_slice_without_validation ==
    /\ lentry = "none" /\ linput.kind = "bytes"
    /\ lentry' = "from_slice_without_validation"
    /\ lret' = from_slice_without_validation(lext, linput.bytes)
    /\ UNCHANGED <<linput, lext, normVars, docVars>>

Call_from_slice ==
    /\ lentry = "none" /\ linput.kind = "bytes"
    /\ lentry' = "from_slice"
    /\ lret' = from_slice(lext, linput.bytes)
    /\ UNCHANGED <<linput, lext, normVars, docVars>>

Call_from_reader_without_validation ==
    /\ lentry = "none" /\ linput.kind = "bytes"
    /\ lentry' = "from_reader_without_validation"
    /\ lret' = from_reader_without_validation(lext, linput.bytes)
    /\ UNCHANGED <<linput, lext, normVars, docVars>>

Call_from_reader ==
    /\ lentry = "none" /\ linput.kind = "bytes"
    /\ lentry' = "from_reader"
    /\ lret' = from_reader(lext, linput.bytes)
    /\ UNCHANGED <<linput, lext, normVars, docVars>>

Call_from_json_without_validation ==
    /\ lentry = "none" /\ linput.kind = "json"
    /\ lentry' = "from_json_without_validation"
    /\ lret' = Outcome(from_json_without_validation(linput.root), <<>>)
    /\ UNCHANGED <<linput, lext, normVars, docVars>>

Call_from_json ==
    /\ lentry = "none" /\ linput.kind = "json"
    /\ lentry' = "from_json"
    /\ lret' = from_json(lext, linput.root)
    /\ UNCHANGED <<linput, lext, normVars, docVars>>

NextLoad ==
    \/ Call_from_slice_without_validation
    \/ Call_from_slice
    \/ Call_from_reader_without_validation
    \/ Call_from_reader
    \/ Call_from_json_without_validation
    \/ Call_from_json

SpecLoad == InitLoad /\ [][NextLoad]_vars

(***************************************************************************)
(* A Document in use: built from a Root, then one method is called on it;  *)
(* the Root that into_json hands back may be wrapped again.                *)
(***************************************************************************)
InitDoc ==
    /\ droot \in Roots
    /\ ddoc = "none"
    /\ dop = "none"
    /\ dres = "none"
    /\ NormIdle /\ LoadIdle

Call_Document_from_json_without_validation ==
    /\ ddoc = "none"
    /\ ddoc' = from_json_without_validation(droot)
    /\ UNCHANGED <<droot, dop, dres, normVars, loadVars>>

Call_into_json ==
    /\ dop = "none" /\ ddoc # "none"
    /\ dop' = "into_json"
    /\ dres' = into_json(ddoc)
    /\ UNCHANGED <<droot, ddoc, normVars, loadVars>>

\* Document::from_json_without_validation(d.into_json())
Call_from_json_of_into_json ==
    /\ dop = "into_json"
    /\ dop' = "round_trip"
    /\ dres' = from_json_without_validation(dres)
    /\ UNCHANGED <<droot, ddoc, normVars, loadVars>>

Call_default_scene ==
    /\ dop = "none" /\ ddoc # "none"
    /\ dop' = "default_scene"
    /\ dres' = default_scene(ddoc)
    /\ UNCHANGED <<droot, ddoc, normVars, loadVars>>

NextDoc ==
    \/ Call_Document_from_json_without_validation
    \/ Call_into_json
    \/ Call_from_json_of_into_json
    \/ Call_default_scene

SpecDoc == InitDoc /\ [][NextDoc]_vars

(***************************************************************************)
(* The crate as a whole: any one of the three uses.                        *)
(***************************************************************************)
Init == InitNorm \/ InitLoad \/ InitDoc

Next == NextNorm \/ NextLoad \/ NextDoc

Spec == Init /\ [][Next]_vars

(***************************************************************************)
(* Properties of the load entry points.                                    *)
(***************************************************************************)
ValidatedEntries == {"from_slice", "from_reader", "from_json"}

\* what the *_without_validation counterpart of the entry point called returns
Counterpart ==
    CASE lentry = "from_slice"  -> from_slice_without_validation(lext, linput.bytes)
      [] lentry = "from_reader" -> from_reader_without_validation(lext, linput.bytes)
      [] lentry = "from_json"   ->
             Outcome(Ok(from_json_without_validation(linput.root)), <<>>)

\* the validator calls among the collaborator calls of the load
ValidatorCalls == SelectSeq(lret.calls, LAMBDA c : c.fn = "validate_minimally")

\* the Document of an Ok result: the value itself for from_json, else its field
DocumentOf(ret) == IF lentry = "from_json" THEN ret.val ELSE ret.val.document

\* C1: a validated entry point returns Ok(x) exactly when its counterpart
\* returns Ok(x) and the validator reports nothing on x's document; a failure
\* of the counterpart is returned as it is, without running the validator;
\* any report makes the result Err(Validation).
C1_ValidatedOnlyThroughCleanPass ==
    lentry \in ValidatedEntries =>
        LET w == Counterpart
        IN  /\ w.ret.tag = "Err" => lret.ret = w.ret /\ ValidatorCalls = <<>>
            /\ w.ret.tag = "Ok" =>
                  /\ ValidatorCalls = <<Call("validate_minimally", DocumentOf(w.ret)[1])>>
                  /\ lext.reports = <<>> => lret.ret = w.ret
                  /\ lext.reports # <<>> =>
                        lret.ret.tag = "Err" /\ lret.ret.err.kind = "Validation"
            /\ lret.ret.tag = "Ok" => w.ret = lret.ret /\ lext.reports = <<>>

\* a binary glTF that parses and deserializes is rejected by the gate
C1_Witness ==
    /\ lentry = "from_reader"
    /\ StartsWith(linput.bytes, Magic)
    /\ lret.ret.tag = "Err"
    /\ lret.ret.err.kind = "Validation"

\* C2: Document::validate returns every (path, error) pair the validator
\* reported, once each and in the order reported, and Ok(()) only when
\* nothing was reported.
C2_ValidateCollectsEveryReport ==
    (lentry \in ValidatedEntries /\ ValidatorCalls # <<>>) =>
        /\ lext.reports # <<>> =>
              /\ lret.ret.tag = "Err"
              /\ lret.ret.err.kind = "Validation"
              /\ Len(lret.ret.err.payload) = Len(lext.reports)
              /\ \A i \in 1..Len(lext.reports) :
                    lret.ret.err.payload[i] = lext.reports[i]
        /\ lext.reports = <<>> => lret.ret.tag = "Ok"

\* two different reports in one pass, both returned
C2_Witness ==
    /\ lentry = "from_json"
    /\ Len(lext.reports) = 2
    /\ lext.reports[1] # lext.reports[2]
    /\ lret.ret.tag = "Err"
    /\ Len(lret.ret.err.payload) = 2

\* C3: an input that does not start with the magic, of any length, is handed
\* whole to the JSON deserializer by both unvalidated loaders; the result is
\* Ok with no blob or a Deserialize error, and the container parser is not
\* called.
C3_BareJsonAlwaysDeserialized ==
    (/\ lentry \in {"from_slice_without_validation", "from_reader_without_validation"}
     /\ ~StartsWith(linput.bytes, Magic)) =>
        /\ Len(lret.calls) = 1
        /\ lret.calls[1].fn \in {"json::from_slice", "json::from_reader"}
        /\ lret.calls[1].arg = linput.bytes
        /\ \/ lret.ret.tag = "Ok" /\ lret.ret.val.blob = None
           \/ lret.ret.tag = "Err" /\ lret.ret.err.kind = "Deserialize"

(***************************************************************************)
(* Properties of Document.                                                 *)
(***************************************************************************)
\* the sequences the traversal methods of a Document walk, by method
Traversals(d) ==
    <<accessors(d).iter, animations(d).iter, buffers(d).iter, views(d).iter,
      cameras(d).iter, images(d).iter, materials(d).iter, meshes(d).iter,
      nodes(d).iter, samplers(d).iter, scenes(d).iter, skins(d).iter,
      textures(d).iter, extensions_used(d), extensions_required(d)>>

\* C4: from_json_without_validation(d.into_json()) has the same sequence in
\* every category, the same default scene reference and the same extension
\* lists as d, and from_json_without_validation(j).into_json() is j.
C4_RoundTrip ==
    /\ dop = "into_json" => dres = droot
    /\ dop = "round_trip" =>
          /\ Traversals(dres) = Traversals(ddoc)
          /\ dres[1].scene = ddoc[1].scene

\* a Document of two different scenes, the second the default, rebuilt
C4_Witness ==
    /\ dop = "round_trip"
    /\ ddoc[1].scenes = <<"a", "b">>
    /\ ddoc[1].scene = Some(1)
    /\ scenes(dres).iter = <<<<0, "a">>, <<1, "b">>>>

\* C9: default_scene returns None exactly when the scene reference is absent,
\* the view of scene i (with index i) when the reference i is in range, and
\* panics, rather than returning None, when it is out of range.
C9_DefaultScene ==
    dop = "default_scene" =>
        LET sc == ddoc[1].scene
        IN  /\ dres = None <=> sc = None
            /\ (sc # None /\ sc.val < Len(ddoc[1].scenes)) =>
                  /\ dres.tag = "Some"
                  /\ dres.val.index = sc.val
                  /\ dres.val.json = ddoc[1].scenes[sc.val + 1]
                  /\ dres.val.document = ddoc
            /\ (sc # None /\ sc.val >= Len(ddoc[1].scenes)) => dres = Panic

\* a scene reference one past the last scene: the call panics
C9_Witness ==
    /\ dop = "default_scene"
    /\ Len(ddoc[1].scenes) = 1
    /\ ddoc[1].scene = Some(1)
    /\ dres = Panic

(***************************************************************************)
(* Properties of the conversion matrix.                                    *)
(***************************************************************************)
Abs(x) == IF x < 0 THEN -x ELSE x

Signed(T) == T \in {"i8", "i16"}

\* C5: an integer converted to f32 and back to its own encoding is within one
\* unit of where it started.
C5_RoundTripWithinOne ==
    (ntgt = "f32" /\ nback # "none") =>
        \A i \in 1..2 : Abs(nback[i].v - nin[i]) <= 1

\* C6: an integer converted to f32 lies in [-1, 1]; the minimum of a signed
\* encoding gives exactly -1, and an unsigned source gives nothing below 0.
C6_FloatInUnitInterval ==
    ntgt = "f32" =>
        \A i \in 1..2 :
            /\ F32Le(F32FromInt(-1), nout[i].v)
            /\ F32Le(nout[i].v, F32FromInt(1))
            /\ (Signed(nsrc) /\ nin[i] = MinOf(nsrc)) => nout[i].v = F32FromInt(-1)
            /\ ~Signed(nsrc) => F32Le(F32Zero, nout[i].v)

\* the minimum of i16, -32768, converted to exactly -1.0
C6_Witness ==
    /\ ntgt = "f32"
    /\ nsrc = "i16"
    /\ nin[1] = -32768
    /\ nout[1].v = F32FromInt(-1)

\* C7: in every integer to integer conversion each intermediate and the
\* result fit the type they are computed in: nothing overflows or wraps.
C7_NoOverflow ==
    ntgt \in IntTypes =>
        \A i \in 1..2 : ~nout[i].wrapped /\ Fits(ntgt, nout[i].v)

\* the largest u8 scaled into i16
C7_Witness ==
    /\ nsrc = "u8"
    /\ ntgt = "i16"
    /\ nin[1] = 255
    /\ nout[1] = Val(32640, FALSE)

\* the result the ratio of the representable ranges gives for x of S in T
ScaledByRatio(S, T, x) ==
    LET c == IF ~Signed(T) /\ x < 0 THEN 0 ELSE x
    IN  IF MaxOf(T) > MaxOf(S)
        THEN c * ((MaxOf(T) + 1) \div (MaxOf(S) + 1))
        ELSE TruncDiv(c, (MaxOf(S) + 1) \div (MaxOf(T) + 1))

\* C8: between two different integer encodings the conversion multiplies, or
\* divides with truncation, by the ratio of the representable ranges, after
\* replacing a negative source by 0 when the target is unsigned.
C8_ScalesByRangeRatio ==
    (ntgt \in IntTypes /\ ntgt # nsrc) =>
        \A i \in 1..2 : nout[i].v = ScaledByRatio(nsrc, ntgt, nin[i])

\* C10: every conversion from an integer encoding preserves order: x <= y
\* gives normalize(x) <= normalize(y) in the target encoding.
C10_OrderPreserving ==
    (ntgt \in Types /\ nin[1] <= nin[2]) =>
        IF ntgt = "f32" THEN F32Le(nout[1].v, nout[2].v)
        ELSE nout[1].v <= nout[2].v

\* two neighbours on either side of a step of the narrowing i16 to u8
C10_Witness ==
    /\ nsrc = "i16"
    /\ ntgt = "u8"
    /\ nin = <<127, 128>>
    /\ nout[1].v = 0
    /\ nout[2].v = 1

====
